---------------------------- MODULE Spec2Model ----------------------------
(***************************************************************************)
(* A model of python_caltrain/caltrain.py: the GTFS loader of class        *)
(* Caltrain (load_from_gtfs), its queries (get_station, get_trains,        *)
(* fare_between, next_trips, next_trains) and the module-level helpers     *)
(* (_sanitize_name, _resolve_time, _resolve_duration, the alias table).    *)
(*                                                                         *)
(* Python values are modelled as follows.                                  *)
(*   str            a TLA+ string; a character is a string of length 1     *)
(*   dict           a function; a dict whose iteration order is read by    *)
(*                  the code (trains, stations) is a sequence of           *)
(*                  [key, val] records in insertion order                  *)
(*   namedtuple     a record                                               *)
(*   date           <<year, month, day>>                                   *)
(*   time           <<hour, minute, second>>                               *)
(*   timedelta      a signed number of seconds                             *)
(*   float          a number of hundredths                                 *)
(*   an exception   the name of its class, in the field err of result      *)
(***************************************************************************)
EXTENDS Integers, Sequences, FiniteSets, TLC

(***************************************************************************)
(* Characters and the str methods the code calls.                          *)
(***************************************************************************)
UpperLetters == "ABCDEFGHIJKLMNOPQRSTUVWXYZ"

LowerLetters == "abcdefghijklmnopqrstuvwxyz"

Digits == "0123456789"

Char(s, i) == SubSeq(s, i, i)

CharsOf(s) == {Char(s, i) : i \in 1..Len(s)}

UpperChars == CharsOf(UpperLetters)

LowerChars == CharsOf(LowerLetters)

DigitChars == CharsOf(Digits)

\* the lower-case letter of each upper-case letter, and the reverse
LowerOf == [c \in UpperChars |-> Char(LowerLetters, CHOOSE i \in 1..26 : Char(UpperLetters, i) = c)]

UpperOf == [c \in LowerChars |-> Char(UpperLetters, CHOOSE i \in 1..26 : Char(LowerLetters, i) = c)]

DigitValue == [c \in DigitChars |-> (CHOOSE i \in 1..10 : Char(Digits, i) = c) - 1]

IsLetterChar(c) == c \in UpperChars \/ c \in LowerChars

IsDigitChar(c) == c \in DigitChars

\* the class [A-Za-z0-9] of the regular expressions
IsAlnumChar(c) == IsLetterChar(c) \/ IsDigitChar(c)

IsSpaceChar(c) == c \in {" ", "\t", "\n", "\r"}

LowerChar(c) == IF c \in UpperChars THEN LowerOf[c] ELSE c

UpperChar(c) == IF c \in LowerChars THEN UpperOf[c] ELSE c

RECURSIVE ConvertChars(_, _, _, _)
\* the characters lo to hi of s, each one that the table has replaced by its entry
ConvertChars(s, table, lo, hi) ==
    IF lo > hi THEN ""
    ELSE IF lo = hi
         THEN IF Char(s, lo) \in DOMAIN table THEN table[Char(s, lo)] ELSE Char(s, lo)
         ELSE LET mid == (lo + hi) \div 2
              IN  ConvertChars(s, table, lo, mid) \o ConvertChars(s, table, mid + 1, hi)

\* str.lower()
StrLower(s) == ConvertChars(s, LowerOf, 1, Len(s))

\* str.upper()
StrUpper(s) == ConvertChars(s, UpperOf, 1, Len(s))

RECURSIVE TitleChars(_, _, _)
\* the characters lo to hi of s.title(): a letter that follows a letter is
\* lowered, any other letter is raised
TitleChars(s, lo, hi) ==
    IF lo > hi THEN ""
    ELSE IF lo = hi
         THEN IF lo > 1 /\ IsLetterChar(Char(s, lo - 1))
              THEN LowerChar(Char(s, lo))
              ELSE UpperChar(Char(s, lo))
         ELSE LET mid == (lo + hi) \div 2
              IN  TitleChars(s, lo, mid) \o TitleChars(s, mid + 1, hi)

\* str.title()
StrTitle(s) == TitleChars(s, 1, Len(s))

StartsWith(s, p) == Len(p) <= Len(s) /\ SubSeq(s, 1, Len(p)) = p

EndsWith(s, p) == Len(p) <= Len(s) /\ SubSeq(s, Len(s) - Len(p) + 1, Len(s)) = p

\* the least member of a non-empty set of numbers
Least(S) == CHOOSE i \in S : \A j \in S : i <= j

\* the places from which p is read in s
Occurrences(s, p) == {i \in 1..(Len(s) - Len(p) + 1) : SubSeq(s, i, i + Len(p) - 1) = p}

RECURSIVE StrReplace(_, _, _)
\* str.replace(old, new) with a non-empty old: the non-overlapping occurrences, left to right
StrReplace(s, old, new) ==
    IF Occurrences(s, old) = {} THEN s
    ELSE LET i == Least(Occurrences(s, old))
         IN  SubSeq(s, 1, i - 1) \o new
                 \o StrReplace(SubSeq(s, i + Len(old), Len(s)), old, new)

\* str.strip()
StrStrip(s) ==
    LET kept == {i \in 1..Len(s) : ~IsSpaceChar(Char(s, i))}
    IN  IF kept = {} THEN "" ELSE SubSeq(s, Least(kept), -Least({-i : i \in kept}))

RECURSIVE SplitAt(_, _)
\* the pieces of s between the places seps, which hold the separators
SplitAt(s, seps) ==
    IF seps = {} THEN <<s>>
    ELSE LET i == Least(seps)
         IN  <<SubSeq(s, 1, i - 1)>>
                 \o SplitAt(SubSeq(s, i + 1, Len(s)), {j - i : j \in seps \ {i}})

\* re.split('[^A-Za-z0-9]', s)
ReSplitNonAlnum(s) == SplitAt(s, {i \in 1..Len(s) : ~IsAlnumChar(Char(s, i))})

\* s.split(sep) for a separator of one character
StrSplit(s, sep) == SplitAt(s, {i \in 1..Len(s) : Char(s, i) = sep})

RECURSIVE StrJoin(_, _)
\* sep.join(pieces)
StrJoin(sep, pieces) ==
    IF Len(pieces) = 0 THEN ""
    ELSE IF Len(pieces) = 1 THEN pieces[1]
         ELSE pieces[1] \o sep \o StrJoin(sep, Tail(pieces))

\* str.isdigit()
StrIsDigit(s) == s # "" /\ \A i \in 1..Len(s) : IsDigitChar(Char(s, i))

RECURSIVE IntOfDigits(_, _)
IntOfDigits(s, acc) ==
    IF s = "" THEN acc
    ELSE IntOfDigits(Tail(s), 10 * acc + DigitValue[Char(s, 1)])

\* int(s) for a string of decimal digits
ParseInt(s) == IntOfDigits(s, 0)

(***************************************************************************)
(* _sanitize_name                                                          *)
(***************************************************************************)
_sanitize_name(name) ==
    StrStrip(StrReplace(StrLower(StrJoin("", ReSplitNonAlnum(name))), "station", ""))

(***************************************************************************)
(* Times of day and durations (datetime.time, datetime.timedelta).         *)
(***************************************************************************)
\* (_BASE_DATE + timedelta(seconds = total)).time(): the base date is a midnight
TimeOfSeconds(total) ==
    <<(total \div 3600) % 24, (total \div 60) % 60, total % 60>>

\* timedelta(days, hours, minutes, seconds), in seconds
Timedelta(days, hours, minutes, seconds) ==
    days * 86400 + hours * 3600 + minutes * 60 + seconds

\* a variant of lines 71-76 that forgets the day of line 72
_resolve_time_same_day(t) ==
    LET parts == StrSplit(t, ":")
    IN  <<0, TimeOfSeconds(Timedelta(0, ParseInt(parts[1]) % 24,
                                     ParseInt(parts[2]), ParseInt(parts[3])))>>

\* lines 71-76
_resolve_time(t) ==
    LET parts == StrSplit(t, ":")
        hour0 == ParseInt(parts[1])
        minute == ParseInt(parts[2])
        second == ParseInt(parts[3])
        day == hour0 \div 24
        hour == hour0 % 24
    IN  <<day, TimeOfSeconds(Timedelta(0, hour, minute, second))>>

\* time < time
TimeLess(x, y) ==
    \/ x[1] < y[1]
    \/ x[1] = y[1] /\ x[2] < y[2]
    \/ x[1] = y[1] /\ x[2] = y[2] /\ x[3] < y[3]

_resolve_duration(start, end) ==
    LET start_time == Timedelta(start.departure_day, start.departure[1],
                                start.departure[2], start.departure[3])
        end_time == Timedelta(end.departure_day, end.arrival[1],
                              end.arrival[2], end.arrival[3])
    IN  end_time - start_time

\* lines 318-323: the Stop of a stop-time row
StopOfRow(r) ==
    LET a == _resolve_time(r.arrival_time)
        d == _resolve_time(r.departure_time)
    IN  [arrival |-> a[2], arrival_day |-> a[1],
         departure |-> d[2], departure_day |-> d[1],
         stop_number |-> ParseInt(r.stop_sequence)]

(***************************************************************************)
(* Dates (datetime.date): strptime(s, '%Y%m%d').date(), the order of       *)
(* dates and date.weekday() (0 is Monday).                                 *)
(***************************************************************************)
ParseDate(s) ==
    <<ParseInt(SubSeq(s, 1, 4)), ParseInt(SubSeq(s, 5, 6)), ParseInt(SubSeq(s, 7, 8))>>

\* date <= date
DateLE(x, y) ==
    \/ x[1] < y[1]
    \/ x[1] = y[1] /\ x[2] < y[2]
    \/ x[1] = y[1] /\ x[2] = y[2] /\ x[3] <= y[3]

\* the number of days from 1970-01-01 to the date (proleptic Gregorian calendar)
DaysFromCivil(date) ==
    LET y == IF date[2] <= 2 THEN date[1] - 1 ELSE date[1]
        era == y \div 400
        yoe == y - era * 400
        mp == IF date[2] > 2 THEN date[2] - 3 ELSE date[2] + 9
        doy == (153 * mp + 2) \div 5 + date[3] - 1
        doe == yoe * 365 + yoe \div 4 - yoe \div 100 + doy
    IN  era * 146097 + doe - 719468

\* date.weekday(): 1970-01-01 was a Thursday
Weekday(date) == (DaysFromCivil(date) + 3) % 7

(***************************************************************************)
(* Dictionaries.                                                           *)
(***************************************************************************)
EmptyDict == <<>>

\* d[k] = v
DictPut(d, k, v) == (k :> v) @@ d

\* a dictionary in insertion order: a sequence of [key, val] without repeated keys
OKeys(d) == {d[i].key : i \in 1..Len(d)}

OGet(d, k) == d[CHOOSE i \in 1..Len(d) : d[i].key = k].val

\* d[k] = v: a key already present keeps its place
OPut(d, k, v) ==
    IF k \in OKeys(d)
    THEN [d EXCEPT ![CHOOSE i \in 1..Len(d) : d[i].key = k] = [key |-> k, val |-> v]]
    ELSE Append(d, [key |-> k, val |-> v])

RECURSIVE ODictFrom(_)
\* dict(pairs): the pairs are put one after the other
ODictFrom(pairs) ==
    IF pairs = <<>> THEN <<>>
    ELSE LET p == pairs[Len(pairs)]
         IN  OPut(ODictFrom(SubSeq(pairs, 1, Len(pairs) - 1)), p.key, p.val)

(***************************************************************************)
(* The tables of the module: lines 103-159.                                *)
(***************************************************************************)
\* _STATIONS_RE.match(name).group(1), or "" when the name does not match
\* '^(.+) Caltrain( Station)?$'
StationsReGroup1(name) ==
    IF EndsWith(name, " Caltrain Station") /\ Len(name) > Len(" Caltrain Station")
    THEN SubSeq(name, 1, Len(name) - Len(" Caltrain Station"))
    ELSE IF EndsWith(name, " Caltrain") /\ Len(name) > Len(" Caltrain")
         THEN SubSeq(name, 1, Len(name) - Len(" Caltrain"))
         ELSE ""

_RENAME_MAP ==
    [x \in {"SO. SAN FRANCISCO", "MT VIEW", "CALIFORNIA AVE"} |->
        CASE x = "SO. SAN FRANCISCO" -> "SOUTH SAN FRANCISCO"
          [] x = "MT VIEW" -> "MOUNTAIN VIEW"
          [] x = "CALIFORNIA AVE" -> "CALIFORNIA AVENUE"]

\* _RENAME_MAP.get(k, k); _ALIAS_MAP.get(k, k)
DictGet(d, k, default) == IF k \in DOMAIN d THEN d[k] ELSE default

\* a value that is a single str is written as the tuple that line 136 makes of it
_ALIAS_MAP_RAW ==
    << <<"SAN FRANCISCO", <<"SF", "SAN FRAN">> >>,
       <<"SOUTH SAN FRANCISCO", <<"S SAN FRANCISCO", "SOUTH SF",
                                  "SOUTH SAN FRAN", "S SAN FRAN",
                                  "S SAN FRANCISCO", "S SF", "SO SF",
                                  "SO SAN FRANCISCO", "SO SAN FRAN">> >>,
       <<"22ND STREET", <<"TWENTY-SECOND STREET", "TWENTY-SECOND ST",
                          "22ND ST", "22ND", "TWENTY-SECOND", "22">> >>,
       <<"MOUNTAIN VIEW", <<"MT VIEW">> >>,
       <<"CALIFORNIA AVENUE", <<"CAL AVE", "CALIFORNIA", "CALIFORNIA AVE",
                                "CAL", "CAL AV", "CALIFORNIA AV">> >>,
       <<"REDWOOD CITY", <<"REDWOOD">> >>,
       <<"SAN JOSE DIRIDON", <<"DIRIDON", "SAN JOSE", "SJ DIRIDON", "SJ">> >>,
       <<"COLLEGE PARK", <<"COLLEGE">> >>,
       <<"BLOSSOM HILL", <<"BLOSSOM">> >>,
       <<"MORGAN HILL", <<"MORGAN">> >>,
       <<"HAYWARD PARK", <<"HAYWARD">> >>,
       <<"MENLO PARK", <<"MENLO">> >> >>

RECURSIVE AliasPut(_, _, _)
\* lines 137-138: the aliases v of station k, put into m
AliasPut(m, k, v) ==
    IF v = <<>> THEN m
    ELSE AliasPut(DictPut(m, _sanitize_name(v[1]), _sanitize_name(k)), k, Tail(v))

RECURSIVE AliasFrom(_, _)
\* lines 134-138
AliasFrom(m, raw) ==
    IF raw = <<>> THEN m
    ELSE AliasFrom(AliasPut(m, raw[1][1], raw[1][2]), Tail(raw))

\* lines 132-138: the dictionary the module builds when it is imported
alias_map_at_import == AliasFrom(EmptyDict, _ALIAS_MAP_RAW)

\* the values of the enumeration Direction
Direction == [north |-> 0, south |-> 1]

\* the values of the enumeration TransitType: route_short_name to the member's name
TransitType ==
    [x \in {"Bullet", "Limited", "Local", "TaSJ-Shuttle", "Special", "Bus Bridge"} |->
        CASE x = "Bullet" -> "baby_bullet"
          [] x = "Limited" -> "limited"
          [] x = "Local" -> "local"
          [] x = "TaSJ-Shuttle" -> "tamien_sanjose"
          [] x = "Special" -> "special"
          [] x = "Bus Bridge" -> "bus_bridge"]

\* float(s) for a decimal with two places, in hundredths
ParseFloat(s) ==
    LET parts == StrSplit(s, ".") IN ParseInt(parts[1]) * 100 + ParseInt(parts[2])

(***************************************************************************)
(* The state: the fields of a Caltrain instance, the position and the      *)
(* locals of a load_from_gtfs call in progress, and the outcome of the     *)
(* last call that returned.                                                *)
(***************************************************************************)
VARIABLES
    _ALIAS_MAP,             \* the module's _ALIAS_MAP, as built at import
    trains,                \* self.trains: trip_id to Train, in insertion order
    stations,               \* self.stations, in insertion order
    _unambiguous_stations,  \* self._unambiguous_stations, in insertion order
    _service_windows,       \* self._service_windows: service_id to ServiceWindow
    _fares,                 \* self._fares: (origin zone, destination zone) to price
    pc,                     \* "done", "failed", or the table load_from_gtfs is reading
    row,                    \* the number of the row it reads next
    feed,                   \* the tables of the archive given to load_from_gtfs
    fare_lookup,            \* the local fare_lookup
    routes,                 \* the local routes
    old,                    \* the fields as they were when load_from_gtfs was called
    loads,                  \* the number of calls of load_from_gtfs since __init__
    result,                 \* the call that returned last and what it returned
    input                   \* the argument of a helper applied on its own

vars == <<_ALIAS_MAP, trains, stations, _unambiguous_stations, _service_windows, _fares,
          pc, row, feed, fare_lookup, routes, old, loads, result, input>>

instance == <<trains, stations, _unambiguous_stations, _service_windows, _fares>>

loader == <<pc, row, feed, fare_lookup, routes, old, loads>>

\* the instance as a query reads it
Self ==
    [trains |-> trains, stations |-> stations,
     _unambiguous_stations |-> _unambiguous_stations,
     _service_windows |-> _service_windows, _fares |-> _fares]

\* lines 173-178: the fields as __init__ sets them
EmptySelf ==
    [trains |-> <<>>, stations |-> <<>>, _unambiguous_stations |-> <<>>,
     _service_windows |-> EmptyDict, _fares |-> EmptyDict]

NoResult == [op |-> "none", args |-> <<>>, err |-> "none", ret |-> <<>>]

Returned(op, args, r) == [op |-> op, args |-> args, err |-> r.err, ret |-> r.ret]

Ok(v) == [err |-> "none", ret |-> v]

Raise(e, v) == [err |-> e, ret |-> v]

(***************************************************************************)
(* load_from_gtfs, one row (or one statement) at a time.  A frame L holds  *)
(* the instance (self), the locals and the exception raised, if any.       *)
(***************************************************************************)
Frame(self, fl, rt) == [self |-> self, fare_lookup |-> fl, routes |-> rt, err |-> "none"]

\* lines 198-199
reset_fields(self) ==
    [self EXCEPT !.trains = <<>>, !.stations = <<>>,
                 !._service_windows = EmptyDict, !._fares = EmptyDict]

\* lines 210-212: a row of fare_attributes.txt
fare_attributes_row(L, r) ==
    [L EXCEPT !.fare_lookup =
        DictPut(@, r.fare_id,
                LET price == StrSplit(r.price, ".")
                IN  [i \in 1..Len(price) |-> ParseInt(price[i])])]

\* lines 217-219: a row of fare_rules.txt
fare_rules_row(L, r) ==
    LET k == <<r.origin_id, r.destination_id>>
    IN  IF r.fare_id \notin DOMAIN L.fare_lookup
        THEN [L EXCEPT !.err = "KeyError"]
        ELSE [L EXCEPT !.self._fares = DictPut(@, k, L.fare_lookup[r.fare_id])]

\* lines 230-238: a row of calendar.txt; r.week holds the columns monday..sunday
calendar_row(L, r) ==
    [L EXCEPT !.self._service_windows =
        DictPut(@, r.service_id,
                [id |-> r.service_id,
                 name |-> r.service_name,
                 start |-> ParseDate(r.start_date),
                 end |-> ParseDate(r.end_date),
                 days |-> {i \in 0..6 : ParseInt(r.week[i + 1]) = 1},
                 removed |-> FALSE])]

\* a variant of lines 243-260 without the test of line 251
calendar_dates_row_unguarded(L, r) ==
    [L EXCEPT !.self._service_windows =
        DictPut(@, r.service_id,
                [id |-> r.service_id,
                 name |-> r.holiday_name,
                 start |-> ParseDate(r.date),
                 end |-> ParseDate(r.date),
                 days |-> {Weekday(ParseDate(r.date))},
                 removed |-> (r.exception_type = "2")])]

\* lines 243-260: a row of calendar_dates.txt
calendar_dates_row(L, r) ==
    LET service_id == r.service_id
        holiday_name == r.holiday_name
        exception_type == r.exception_type
        service_date == ParseDate(r.date)
    IN  IF service_id \notin DOMAIN L.self._service_windows
        THEN [L EXCEPT !.self._service_windows =
                DictPut(@, service_id,
                        [id |-> service_id,
                         name |-> holiday_name,
                         start |-> service_date,
                         end |-> service_date,
                         days |-> {Weekday(service_date)},
                         removed |-> (exception_type = "2")])]
        ELSE L

\* lines 267-279: a row of stops.txt
stops_row(L, r) ==
    IF ~StrIsDigit(r.stop_id) THEN L
    ELSE LET group1 == StationsReGroup1(r.stop_name)
             stop_name == StrUpper(StrStrip(group1))
         IN  IF group1 = ""
             THEN [L EXCEPT !.err = "AttributeError"]
             ELSE [L EXCEPT !.self.stations =
                     OPut(@, r.stop_id,
                          [name |-> StrTitle(DictGet(_RENAME_MAP, stop_name, stop_name)),
                           zone |-> r.zone_id,
                           latitude |-> ParseFloat(r.stop_lat),
                           longitude |-> ParseFloat(r.stop_lon)])]

\* lines 287-288: a row of routes.txt
routes_row(L, r) == [L EXCEPT !.routes = DictPut(@, r.route_id, r)]

\* Direction(train_dir): the name of the member
DirectionOf(v) == CHOOSE n \in DOMAIN Direction : Direction[n] = v

\* lines 292-304: a row of trips.txt
trips_row(L, r) ==
    LET train_dir == ParseInt(r.direction_id)
        name == IF r.trip_short_name # "" THEN r.trip_short_name ELSE r.trip_id
    IN  IF r.route_id \notin DOMAIN L.routes THEN [L EXCEPT !.err = "KeyError"]
        ELSE IF name = "" THEN [L EXCEPT !.err = "AssertionError"]
        ELSE IF L.routes[r.route_id].route_short_name \notin DOMAIN TransitType
             THEN [L EXCEPT !.err = "ValueError"]
        ELSE IF \A n \in DOMAIN Direction : Direction[n] # train_dir
             THEN [L EXCEPT !.err = "ValueError"]
        ELSE IF r.service_id \notin DOMAIN L.self._service_windows
             THEN [L EXCEPT !.err = "KeyError"]
        ELSE [L EXCEPT !.self.trains =
                OPut(@, r.trip_id,
                     [name |-> name,
                      kind |-> TransitType[L.routes[r.route_id].route_short_name],
                      direction |-> DirectionOf(train_dir),
                      stops |-> EmptyDict,
                      service_window |-> L.self._service_windows[r.service_id]])]

\* Station(v['name'], v['zone'], v['latitude'], v['longitude'])
Station(name, zone, latitude, longitude) ==
    [name |-> name, zone |-> zone, latitude |-> latitude, longitude |-> longitude]

\* lines 306-308
station_tuples(L) ==
    [L EXCEPT !.self.stations =
        ODictFrom([i \in 1..Len(@) |->
                      [key |-> @[i].key,
                       val |-> Station(@[i].val.name, @[i].val.zone,
                                       @[i].val.latitude, @[i].val.longitude)]])]

\* lines 315-323: a row of stop_times.txt
stop_times_row(L, r) ==
    LET stop_id == r.stop_id
    IN  IF r.trip_id \notin OKeys(L.self.trains) THEN [L EXCEPT !.err = "KeyError"]
        ELSE IF stop_id \notin OKeys(L.self.stations) THEN [L EXCEPT !.err = "KeyError"]
        ELSE LET train == OGet(L.self.trains, r.trip_id)
                 name == OGet(L.self.stations, stop_id).name
             IN  [L EXCEPT !.self.trains =
                     OPut(@, r.trip_id,
                          [train EXCEPT !.stops = DictPut(@, name, StopOfRow(r))])]

\* lines 326-328
display_keys(L) ==
    [L EXCEPT !.self.stations =
        ODictFrom([i \in 1..Len(@) |->
                      [key |-> StrLower(StrJoin("_", ReSplitNonAlnum(@[i].val.name))),
                       val |-> @[i].val]])]

\* lines 331-332
lookup_keys(L) ==
    [L EXCEPT !.self._unambiguous_stations =
        ODictFrom([i \in 1..Len(L.self.stations) |->
                      [key |-> StrReplace(L.self.stations[i].key, "_", ""),
                       val |-> L.self.stations[i].val]])]

\* the tables in the order load_from_gtfs reads them, and its three statements
\* after the tables
Phases ==
    <<"fare_attributes", "fare_rules", "calendar", "calendar_dates", "stops",
      "routes", "trips", "station_tuples", "stop_times", "display_keys", "lookup_keys">>

Statements == {"station_tuples", "display_keys", "lookup_keys"}

PhaseIndex(p) == CHOOSE k \in 1..Len(Phases) : Phases[k] = p

\* the number of steps of a phase: the rows of its table
PhaseLen(f, k) == IF Phases[k] \in Statements THEN 1 ELSE Len(f[Phases[k]])

RECURSIVE FirstRowFrom(_, _)
\* the first row of the k-th phase, or of the next phase when its table is empty
FirstRowFrom(f, k) ==
    IF k > Len(Phases) THEN [pc |-> "done", row |-> 0]
    ELSE IF PhaseLen(f, k) > 0 THEN [pc |-> Phases[k], row |-> 1]
         ELSE FirstRowFrom(f, k + 1)

\* the position after row i of phase p
NextPos(f, p, i) ==
    IF i < PhaseLen(f, PhaseIndex(p)) THEN [pc |-> p, row |-> i + 1]
    ELSE FirstRowFrom(f, PhaseIndex(p) + 1)

\* the step of load_from_gtfs at row i of phase p
RowStep(L, f, p, i) ==
    CASE p = "fare_attributes" -> fare_attributes_row(L, f.fare_attributes[i])
      [] p = "fare_rules" -> fare_rules_row(L, f.fare_rules[i])
      [] p = "calendar" -> calendar_row(L, f.calendar[i])
      [] p = "calendar_dates" -> calendar_dates_row(L, f.calendar_dates[i])
      [] p = "stops" -> stops_row(L, f.stops[i])
      [] p = "routes" -> routes_row(L, f.routes[i])
      [] p = "trips" -> trips_row(L, f.trips[i])
      [] p = "station_tuples" -> station_tuples(L)
      [] p = "stop_times" -> stop_times_row(L, f.stop_times[i])
      [] p = "display_keys" -> display_keys(L)
      [] p = "lookup_keys" -> lookup_keys(L)

RECURSIVE LoadFrom(_, _, _)
\* the frame when load_from_gtfs returns or raises, run from position pos
LoadFrom(L, f, pos) ==
    IF pos.pc = "done" THEN L
    ELSE LET L2 == RowStep(L, f, pos.pc, pos.row)
         IN  IF L2.err # "none" THEN L2
             ELSE LoadFrom(L2, f, NextPos(f, pos.pc, pos.row))

\* load_from_gtfs(f) on the instance self, as one call
load_from_gtfs(self, f) ==
    LoadFrom(Frame(reset_fields(self), EmptyDict, EmptyDict), f, FirstRowFrom(f, 1))

(***************************************************************************)
(* The queries, on an instance self.  An argument that is a station is     *)
(* [tag |-> "Station", val |-> the Station] or [tag |-> "str", text |-> the *)
(* name]; after is [date |-> the date, time |-> the time of day].          *)
(***************************************************************************)
\* a variant of lines 345-351 that does not look the name up in _ALIAS_MAP
get_station_unaliased(self, name) ==
    LET sanitized == _sanitize_name(name)
    IN  IF sanitized \in OKeys(self._unambiguous_stations)
        THEN Ok(OGet(self._unambiguous_stations, sanitized))
        ELSE Raise("UnknownStationError", name)

\* lines 345-351
get_station(self, name) ==
    LET sanitized0 == _sanitize_name(name)
        sanitized == DictGet(_ALIAS_MAP, sanitized0, sanitized0)
    IN  IF sanitized \in OKeys(self._unambiguous_stations)
        THEN Ok(OGet(self._unambiguous_stations, sanitized))
        ELSE Raise("UnknownStationError", name)

\* self.get_station(a) if not isinstance(a, Station) else a
StationArg(self, a) == IF a.tag = "Station" THEN Ok(a.val) ELSE get_station(self, a.text)

\* sw.start <= after.date() <= sw.end and after.weekday() in sw.days
InTimeWindow(sw, after) ==
    /\ DateLE(sw.start, after.date)
    /\ DateLE(after.date, sw.end)
    /\ Weekday(after.date) \in sw.days

\* lines 377-387: whether get_trains passes over the train
get_trains_skips(train, after) ==
    LET sw == train.service_window
        in_time_window == InTimeWindow(sw, after)
    IN  IF sw.removed THEN in_time_window ELSE ~in_time_window

\* lines 436-446: whether next_trips passes over the train
next_trips_skips(train, after) ==
    LET sw == train.service_window
        in_time_window == InTimeWindow(sw, after)
    IN  IF sw.removed THEN in_time_window ELSE ~in_time_window

\* a variant of lines 499-509 that forgets the removed flag
next_trains_skips_unflagged(train, after) ==
    ~InTimeWindow(train.service_window, after)

\* lines 499-509: whether next_trains passes over the train
next_trains_skips(train, after) ==
    LET sw == train.service_window
        in_time_window == InTimeWindow(sw, after)
    IN  IF sw.removed THEN in_time_window ELSE ~in_time_window

\* the values of an insertion-ordered dictionary, in order
OValues(d) == [i \in 1..Len(d) |-> d[i].val]

\* lines 367-391
get_trains(self, name, after) ==
    Ok(SelectSeq(OValues(self.trains),
                 LAMBDA train : name = train.name /\ ~get_trains_skips(train, after)))

\* a variant of lines 405-407 that falls back on the fare of the way back
fare_between_either_way(self, a, b) ==
    LET ra == StationArg(self, a)
        rb == StationArg(self, b)
    IN  IF ra.err # "none" THEN ra
        ELSE IF rb.err # "none" THEN rb
        ELSE IF <<ra.ret.zone, rb.ret.zone>> \in DOMAIN self._fares
             THEN Ok(self._fares[<<ra.ret.zone, rb.ret.zone>>])
             ELSE IF <<rb.ret.zone, ra.ret.zone>> \in DOMAIN self._fares
                  THEN Ok(self._fares[<<rb.ret.zone, ra.ret.zone>>])
                  ELSE Raise("KeyError", <<ra.ret.zone, rb.ret.zone>>)

\* lines 405-407
fare_between(self, a, b) ==
    LET ra == StationArg(self, a)
        rb == StationArg(self, b)
    IN  IF ra.err # "none" THEN ra
        ELSE IF rb.err # "none" THEN rb
        ELSE IF <<ra.ret.zone, rb.ret.zone>> \in DOMAIN self._fares
             THEN Ok(self._fares[<<ra.ret.zone, rb.ret.zone>>])
             ELSE Raise("KeyError", <<ra.ret.zone, rb.ret.zone>>)

Trip(departure, arrival, duration, train) ==
    [departure |-> departure, arrival |-> arrival, duration |-> duration, train |-> train]

RECURSIVE InsertByDeparture(_, _)
\* x put into the sorted list s, after the entries that do not depart later
InsertByDeparture(s, x) ==
    IF s = <<>> THEN <<x>>
    ELSE IF TimeLess(x.departure, s[Len(s)].departure)
         THEN Append(InsertByDeparture(SubSeq(s, 1, Len(s) - 1), x), s[Len(s)])
         ELSE Append(s, x)

\* a variant of lines 470 and 532 that leaves the list as the loop built it
SortByDeparture_skipped(s) == s

RECURSIVE SortByDeparture(_)
\* possibilities.sort(key=lambda x: x.departure): a stable sort
SortByDeparture(s) ==
    IF s = <<>> THEN <<>>
    ELSE InsertByDeparture(SortByDeparture(SubSeq(s, 1, Len(s) - 1)), s[Len(s)])

\* a variant of lines 455-457 that lets every train pass
wrong_direction_never(stop_a, stop_b) == FALSE

\* lines 455-457: the train reaches a after b
wrong_direction(stop_a, stop_b) == stop_a.stop_number > stop_b.stop_number

\* lines 434-468: the trips of the loop, in the order of self.trains
next_trips_possibilities(self, a, b, after) ==
    LET Keeps(train) ==
            /\ ~next_trips_skips(train, after)
            /\ a.name \in DOMAIN train.stops
            /\ b.name \in DOMAIN train.stops
            /\ ~wrong_direction(train.stops[a.name], train.stops[b.name])
            /\ ~TimeLess(train.stops[a.name].departure, after.time)
        kept == SelectSeq(OValues(self.trains), Keeps)
    IN  [i \in 1..Len(kept) |->
            Trip(kept[i].stops[a.name].departure,
                 kept[i].stops[b.name].arrival,
                 _resolve_duration(kept[i].stops[a.name], kept[i].stops[b.name]),
                 kept[i])]

\* lines 426-471
next_trips(self, a, b, after) ==
    LET ra == StationArg(self, a)
        rb == StationArg(self, b)
    IN  IF ra.err # "none" THEN ra
        ELSE IF rb.err # "none" THEN rb
        ELSE Ok(SortByDeparture(next_trips_possibilities(self, ra.ret, rb.ret, after)))

\* lines 497-530: the trips of the loop, in the order of self.trains
next_trains_possibilities(self, a, after, direction) ==
    LET Keeps(train) ==
            /\ ~next_trains_skips(train, after)
            /\ a.name \in DOMAIN train.stops
            /\ ~(direction # "None" /\ direction # train.direction)
            /\ ~TimeLess(train.stops[a.name].departure, after.time)
        kept == SelectSeq(OValues(self.trains), Keeps)
    IN  [i \in 1..Len(kept) |->
            Trip(kept[i].stops[a.name].departure,
                 kept[i].stops[a.name].departure,
                 0,
                 kept[i])]

\* lines 490-533; direction is "None" or the name of a member of Direction
next_trains(self, a, after, direction) ==
    LET ra == StationArg(self, a)
    IN  IF ra.err # "none" THEN ra
        ELSE Ok(SortByDeparture(next_trains_possibilities(self, ra.ret, after, direction)))

(***************************************************************************)
(* The archives given to load_from_gtfs: the rows of each table, by        *)
(* column name.                                                            *)
(***************************************************************************)
FareAttr(id, price) == [fare_id |-> id, price |-> price]

FareRule(id, o, d) == [fare_id |-> id, origin_id |-> o, destination_id |-> d]

Cal(id, name, start, end, week) ==
    [service_id |-> id, service_name |-> name, start_date |-> start,
     end_date |-> end, week |-> week]

CalDate(id, date, name, type) ==
    [service_id |-> id, date |-> date, holiday_name |-> name, exception_type |-> type]

StopRow(id, name, zone, lat, lon) ==
    [stop_id |-> id, stop_name |-> name, zone_id |-> zone, stop_lat |-> lat, stop_lon |-> lon]

Route(id, short) == [route_id |-> id, route_short_name |-> short]

TripRow(id, short, route, service, dir) ==
    [trip_id |-> id, trip_short_name |-> short, route_id |-> route,
     service_id |-> service, direction_id |-> dir]

StopTime(trip, stop, arr, dep, seq) ==
    [trip_id |-> trip, stop_id |-> stop, arrival_time |-> arr,
     departure_time |-> dep, stop_sequence |-> seq]

MonToFri == <<"1", "1", "1", "1", "1", "0", "0">>

SatSun == <<"0", "0", "0", "0", "0", "1", "1">>

\* a weekday service of two trains between San Francisco and Palo Alto; the
\* exception rows name the base service, a new service twice, and a new service
FeedA ==
    [fare_attributes |-> <<FareAttr("OW_1", "3.75"), FareAttr("OW_2", "6.00")>>,
     fare_rules |-> <<FareRule("OW_1", "1", "1"), FareRule("OW_2", "1", "3")>>,
     calendar |-> <<Cal("WD", "Weekday", "20210104", "20210115", MonToFri)>>,
     calendar_dates |-> <<CalDate("WD", "20210116", "Added Saturday", "1"),
                          CalDate("HOL", "20210118", "MLK Day", "2"),
                          CalDate("HOL", "20210119", "Day after", "1"),
                          CalDate("ADD", "20210116", "Game day", "1")>>,
     stops |-> <<StopRow("ctsf", "San Francisco Caltrain Station", "1", "37.77", "122.39"),
                 StopRow("70011", "San Francisco Caltrain Station", "1", "37.77", "122.39"),
                 StopRow("70171", "Palo Alto Caltrain", "3", "37.44", "122.16")>>,
     routes |-> <<Route("L1", "Local")>>,
     trips |-> <<TripRow("t101", "101", "L1", "WD", "0"),
                 TripRow("t802", "", "L1", "HOL", "1")>>,
     stop_times |-> <<StopTime("t101", "70171", "07:58:00", "08:00:00", "1"),
                      StopTime("t101", "70011", "08:45:00", "08:45:00", "2"),
                      StopTime("t802", "70011", "23:50:00", "23:50:00", "1"),
                      StopTime("t802", "70171", "24:40:00", "24:41:00", "2")>>]

\* a weekend service between San Francisco, 22nd Street and South San Francisco
FeedB ==
    [fare_attributes |-> <<FareAttr("Z1", "3.20")>>,
     fare_rules |-> <<FareRule("Z1", "1", "1")>>,
     calendar |-> <<Cal("WE", "Weekend", "20210102", "20210131", SatSun)>>,
     calendar_dates |-> <<>>,
     stops |-> <<StopRow("70012", "San Francisco Caltrain", "1", "37.78", "122.39"),
                 StopRow("70022", "22nd Street Caltrain", "1", "37.76", "122.39"),
                 StopRow("70042", "So. San Francisco Caltrain Station", "1", "37.66", "122.40")>>,
     routes |-> <<Route("B7", "Bullet")>>,
     trips |-> <<TripRow("t422", "422", "B7", "WE", "1")>>,
     stop_times |-> <<StopTime("t422", "70012", "09:00:00", "09:00:00", "1"),
                      StopTime("t422", "70022", "09:05:00", "09:06:00", "2"),
                      StopTime("t422", "70042", "09:15:00", "09:15:00", "3")>>]

\* FeedA with one faulty row each: the faults load_from_gtfs raises on
FeedUnknownFare ==
    [FeedA EXCEPT !.fare_rules = Append(@, FareRule("OW_9", "3", "1"))]

FeedUnknownRoute ==
    [FeedA EXCEPT !.trips = Append(@, TripRow("t103", "103", "L9", "WD", "0"))]

FeedUnknownService ==
    [FeedA EXCEPT !.trips = Append(@, TripRow("t103", "103", "L1", "XX", "0"))]

FeedUnknownKind ==
    [FeedA EXCEPT !.routes = <<Route("L1", "Express")>>]

FeedEmptyName ==
    [FeedA EXCEPT !.trips = Append(@, TripRow("", "", "L1", "WD", "0"))]

FeedUnknownTrip ==
    [FeedA EXCEPT !.stop_times = Append(@, StopTime("t999", "70011", "10:00:00", "10:00:00", "1"))]

FeedUnknownStop ==
    [FeedA EXCEPT !.stop_times = Append(@, StopTime("t101", "ctsf", "08:45:00", "08:45:00", "3"))]

\* FeedA with more trains: rows that are not in the order of departure, a
\* southbound train, a train of the added service, and a train (t199) whose
\* times run against its stop sequence
FeedQ ==
    [FeedA EXCEPT
        !.trips = <<TripRow("t199", "199", "L1", "WD", "0")>> \o @ \o
                  <<TripRow("t103", "103", "L1", "WD", "0"),
                    TripRow("t102", "102", "L1", "WD", "1"),
                    TripRow("t901", "901", "L1", "ADD", "0")>>,
        !.stop_times = @ \o
            <<StopTime("t103", "70171", "06:28:00", "06:30:00", "1"),
              StopTime("t103", "70011", "07:15:00", "07:15:00", "2"),
              StopTime("t102", "70011", "07:00:00", "07:00:00", "1"),
              StopTime("t102", "70171", "07:45:00", "07:47:00", "2"),
              StopTime("t901", "70171", "09:00:00", "09:02:00", "1"),
              StopTime("t901", "70011", "09:50:00", "09:50:00", "2"),
              StopTime("t199", "70171", "10:00:00", "10:00:00", "1"),
              StopTime("t199", "70011", "09:30:00", "09:30:00", "2")>>]

WellFormedFeeds == {FeedA, FeedB}

FaultyFeeds ==
    {FeedUnknownFare, FeedUnknownRoute, FeedUnknownService, FeedUnknownKind,
     FeedEmptyName, FeedUnknownTrip, FeedUnknownStop}

Feeds == WellFormedFeeds \cup FaultyFeeds

(***************************************************************************)
(* The arguments the queries are called with.                              *)
(***************************************************************************)
At(date, time) == [date |-> date, time |-> time]

Str(text) == [tag |-> "str", text |-> text]

\* the Station objects a caller can hold: those get_station returns
HeldStations == {[tag |-> "Station", val |-> _unambiguous_stations[i].val] :
                    i \in 1..Len(_unambiguous_stations)}

Spellings ==
    {"Palo Alto Caltrain Station", "Palo Alto Station", "PALO-ALTO", "palo alto",
     "SF", "San Francisco", "Nonexistent Place"}

ReloadNames == {"SF", "Palo Alto"}

ReloadAfters == {At(<<2021, 1, 4>>, <<7, 0, 0>>), At(<<2021, 1, 9>>, <<9, 0, 0>>)}

MaxLoads == 1

(***************************************************************************)
(* The actions.                                                            *)
(***************************************************************************)
Published(self) ==
    /\ trains' = self.trains
    /\ stations' = self.stations
    /\ _unambiguous_stations' = self._unambiguous_stations
    /\ _service_windows' = self._service_windows
    /\ _fares' = self._fares

\* lines 171-180: Caltrain(f) has returned; the module was imported before
Constructed(f) ==
    LET L == load_from_gtfs(EmptySelf, f)
    IN  /\ _ALIAS_MAP = alias_map_at_import
        /\ trains = L.self.trains
        /\ stations = L.self.stations
        /\ _unambiguous_stations = L.self._unambiguous_stations
        /\ _service_windows = L.self._service_windows
        /\ _fares = L.self._fares
        /\ pc = "done"
        /\ row = 0
        /\ feed = f
        /\ fare_lookup = EmptyDict
        /\ routes = EmptyDict
        /\ old = EmptySelf
        /\ loads = 0
        /\ result = NoResult
        /\ input = <<>>

Init == \E f \in WellFormedFeeds : Constructed(f)

\* lines 196-199: load_from_gtfs is called with the archive f
BeginLoad(f) ==
    /\ pc \in {"done", "failed"}
    /\ loads < MaxLoads
    /\ loads' = loads + 1
    /\ old' = Self
    /\ Published(reset_fields(Self))
    /\ feed' = f
    /\ fare_lookup' = EmptyDict
    /\ routes' = EmptyDict
    /\ pc' = FirstRowFrom(f, 1).pc
    /\ row' = FirstRowFrom(f, 1).row
    /\ result' = NoResult
    /\ UNCHANGED <<_ALIAS_MAP, input>>

CurFrame == Frame(Self, fare_lookup, routes)

\* the step L2 of load_from_gtfs is taken: it raised, it was the last, or the
\* call goes on to the next row
Commit(L2) ==
    /\ Published(L2.self)
    /\ IF L2.err # "none"
       THEN /\ pc' = "failed"
            /\ row' = 0
            /\ fare_lookup' = EmptyDict
            /\ routes' = EmptyDict
            /\ result' = Returned("load_from_gtfs", <<>>, Raise(L2.err, <<>>))
       ELSE LET pos == NextPos(feed, pc, row)
            IN  /\ pc' = pos.pc
                /\ row' = pos.row
                /\ IF pos.pc = "done"
                   THEN /\ fare_lookup' = EmptyDict
                        /\ routes' = EmptyDict
                        /\ result' = Returned("load_from_gtfs", <<>>, Ok(<<>>))
                   ELSE /\ fare_lookup' = L2.fare_lookup
                        /\ routes' = L2.routes
                        /\ result' = NoResult
    /\ UNCHANGED <<_ALIAS_MAP, feed, old, loads, input>>

ReadFareAttributes ==
    pc = "fare_attributes" /\ Commit(fare_attributes_row(CurFrame, feed.fare_attributes[row]))

ReadFareRules ==
    pc = "fare_rules" /\ Commit(fare_rules_row(CurFrame, feed.fare_rules[row]))

ReadCalendar ==
    pc = "calendar" /\ Commit(calendar_row(CurFrame, feed.calendar[row]))

ReadCalendarDates ==
    pc = "calendar_dates" /\ Commit(calendar_dates_row(CurFrame, feed.calendar_dates[row]))

ReadStops ==
    pc = "stops" /\ Commit(stops_row(CurFrame, feed.stops[row]))

ReadRoutes ==
    pc = "routes" /\ Commit(routes_row(CurFrame, feed.routes[row]))

ReadTrips ==
    pc = "trips" /\ Commit(trips_row(CurFrame, feed.trips[row]))

MakeStationTuples ==
    pc = "station_tuples" /\ Commit(station_tuples(CurFrame))

ReadStopTimes ==
    pc = "stop_times" /\ Commit(stop_times_row(CurFrame, feed.stop_times[row]))

MakeDisplayKeys ==
    pc = "display_keys" /\ Commit(display_keys(CurFrame))

MakeLookupKeys ==
    pc = "lookup_keys" /\ Commit(lookup_keys(CurFrame))

LoadStep ==
    \/ ReadFareAttributes
    \/ ReadFareRules
    \/ ReadCalendar
    \/ ReadCalendarDates
    \/ ReadStops
    \/ ReadRoutes
    \/ ReadTrips
    \/ MakeStationTuples
    \/ ReadStopTimes
    \/ MakeDisplayKeys
    \/ MakeLookupKeys

\* a query is called and returns: the instance is read, nothing is written
Query(op, args, r) ==
    /\ result' = Returned(op, args, r)
    /\ UNCHANGED <<_ALIAS_MAP, instance, loader, input>>

GetStation(names) ==
    \E name \in names : Query("get_station", <<name>>, get_station(Self, name))

GetTrains(names, afters) ==
    \E name \in names, after \in afters :
        Query("get_trains", <<name, after>>, get_trains(Self, name, after))

FareBetween(places) ==
    \E a \in places, b \in places :
        Query("fare_between", <<a, b>>, fare_between(Self, a, b))

NextTrips(places, afters) ==
    \E a \in places, b \in places, after \in afters :
        Query("next_trips", <<a, b, after>>, next_trips(Self, a, b, after))

NextTrains(places, afters, directions) ==
    \E a \in places, after \in afters, direction \in directions :
        Query("next_trains", <<a, after, direction>>, next_trains(Self, a, after, direction))

ReloadPlaces == {Str(n) : n \in ReloadNames}

Next ==
    \/ \E f \in Feeds : BeginLoad(f)
    \/ LoadStep
    \/ GetStation(ReloadNames)
    \/ GetTrains({"101"}, ReloadAfters)
    \/ FareBetween(ReloadPlaces)
    \/ NextTrips(ReloadPlaces, ReloadAfters)
    \/ NextTrains(ReloadPlaces, ReloadAfters, {"None"})

Spec == Init /\ [][Next]_vars

(***************************************************************************)
(* The queries of one caller on an instance that is not reloaded: the      *)
(* caller takes what a call returned before it calls again.                *)
(***************************************************************************)
QueryFeeds == {FeedA, FeedB, FeedQ}

QuerySpellings ==
    {"Palo Alto", "SF", "San Francisco", "22nd Street", "Nonexistent Place"}

QueryPlaces == {Str(n) : n \in QuerySpellings} \cup HeldStations

QueryDates ==
    {<<2021, 1, 4>>, <<2021, 1, 9>>, <<2021, 1, 16>>, <<2021, 1, 18>>, <<2021, 1, 20>>}

QueryTimes == {<<0, 0, 0>>, <<6, 30, 0>>, <<8, 0, 0>>, <<8, 0, 1>>, <<23, 55, 0>>}

QueryAfters == {At(d, t) : d \in QueryDates, t \in QueryTimes}

QueryNames == {"101", "102", "103", "t802", "901", "199", "422", "000"}

QueryDirections == {"None"} \cup DOMAIN Direction

TakeResult ==
    /\ result # NoResult
    /\ result' = NoResult
    /\ UNCHANGED <<_ALIAS_MAP, instance, loader, input>>

InitQuery == \E f \in QueryFeeds : Constructed(f)

NextQuery ==
    \/ result = NoResult /\ GetStation(Spellings)
    \/ result = NoResult /\ GetTrains(QueryNames, QueryAfters)
    \/ result = NoResult /\ FareBetween(QueryPlaces)
    \/ result = NoResult /\ NextTrips(QueryPlaces, QueryAfters)
    \/ result = NoResult /\ NextTrains(QueryPlaces, QueryAfters, QueryDirections)
    \/ TakeResult

SpecQuery == InitQuery /\ [][NextQuery]_vars

(***************************************************************************)
(* The time helpers applied on their own: _resolve_time to a clock string  *)
(* and the Stop that load_from_gtfs makes of a stop-time row.  input holds *)
(* the numbers the clock strings were written from.                        *)
(***************************************************************************)
MaxHour == 47

TwoDigits(n) == Char(Digits, (n \div 10) + 1) \o Char(Digits, (n % 10) + 1)

Clock(c) == TwoDigits(c[1]) \o ":" \o TwoDigits(c[2]) \o ":" \o TwoDigits(c[3])

Clocks == (0..MaxHour) \X (0..59) \X (0..59)

\* the clocks of the rows: around midnight and around the end of a day
RowClocks == {0, 23, 24, 25, MaxHour} \X {0, 30, 59} \X {0, 59}

InitTime ==
    /\ _ALIAS_MAP = alias_map_at_import
    /\ trains = <<>>
    /\ stations = <<>>
    /\ _unambiguous_stations = <<>>
    /\ _service_windows = EmptyDict
    /\ _fares = EmptyDict
    /\ pc = "done"
    /\ row = 0
    /\ feed = <<>>
    /\ fare_lookup = EmptyDict
    /\ routes = EmptyDict
    /\ old = EmptySelf
    /\ loads = 0
    /\ result = NoResult
    /\ input = <<>>

ResolveTime ==
    \E c \in Clocks :
        /\ input' = <<c>>
        /\ result' = Returned("_resolve_time", <<Clock(c)>>, Ok(_resolve_time(Clock(c))))
        /\ UNCHANGED <<_ALIAS_MAP, instance, loader>>

MakeStop ==
    \E a \in RowClocks, d \in RowClocks :
        LET r == StopTime("t", "70011", Clock(a), Clock(d), "1")
        IN  /\ input' = <<a, d>>
            /\ result' = Returned("Stop", <<r>>, Ok(StopOfRow(r)))
            /\ UNCHANGED <<_ALIAS_MAP, instance, loader>>

TakeTime ==
    /\ result # NoResult
    /\ result' = NoResult
    /\ input' = <<>>
    /\ UNCHANGED <<_ALIAS_MAP, instance, loader>>

NextTime ==
    \/ result = NoResult /\ ResolveTime
    \/ result = NoResult /\ MakeStop
    \/ TakeTime

SpecTime == InitTime /\ [][NextTime]_vars

(***************************************************************************)
(* The names of the stations alone: an instance is constructed on an       *)
(* archive whose stops.txt holds two rows of the pool, and the caller asks *)
(* get_station for the display names of the stations the instance holds.   *)
(***************************************************************************)
StopPool ==
    {StopRow("70011", "San Francisco Caltrain Station", "1", "37.77", "122.39"),
     StopRow("70012", "San Francisco Caltrain", "2", "37.78", "122.39"),
     StopRow("70021", "22nd Street Caltrain", "1", "37.76", "122.39"),
     StopRow("70031", "Bayshore Caltrain", "1", "37.71", "122.40"),
     StopRow("70032", "Bay Shore Caltrain Station", "2", "37.70", "122.40"),
     StopRow("70041", "So. San Francisco Caltrain Station", "1", "37.66", "122.40"),
     StopRow("70111", "Union Station Caltrain", "2", "37.57", "122.32"),
     StopRow("70171", "Palo Alto Caltrain", "3", "37.44", "122.16"),
     StopRow("70211", "Mt View Caltrain", "3", "37.39", "122.08"),
     StopRow("70261", "San Jose Caltrain", "4", "37.33", "121.90"),
     StopRow("70262", "San Jose Diridon Caltrain", "4", "37.33", "121.90")}

\* FeedB with the stops a and b, and its train calling at both
NameFeed(a, b) ==
    [FeedB EXCEPT
        !.stops = <<a, b>>,
        !.stop_times = <<StopTime("t422", a.stop_id, "09:00:00", "09:00:00", "1"),
                         StopTime("t422", b.stop_id, "09:15:00", "09:15:00", "2")>>]

NameFeeds == {NameFeed(a, b) : a \in StopPool, b \in StopPool}

\* S.name for the stations S of self.stations
HeldNames == {stations[i].val.name : i \in 1..Len(stations)}

InitNames == \E f \in NameFeeds : Constructed(f)

NextNames ==
    \/ result = NoResult /\ GetStation(HeldNames)
    \/ TakeResult

SpecNames == InitNames /\ [][NextNames]_vars

(***************************************************************************)
(* What the properties below read off a call that returned.                *)
(***************************************************************************)
Returns(op) == result.op = op /\ result.err = "none"

\* the argument after of the call
AfterOfCall ==
    CASE result.op = "get_trains" -> result.args[2]
      [] result.op = "next_trips" -> result.args[3]
      [] result.op = "next_trains" -> result.args[2]

\* the trains of the list the call returned
TrainsReturned ==
    IF result.op = "get_trains"
    THEN {result.ret[i] : i \in 1..Len(result.ret)}
    ELSE {result.ret[i].train : i \in 1..Len(result.ret)}

\* the trains the instance holds
TrainsHeld == {trains[i].val : i \in 1..Len(trains)}

\* a date as the number yyyymmdd, and a time of day in seconds
DateNumber(d) == d[1] * 10000 + d[2] * 100 + d[3]

SecondOfDay(t) == t[1] * 3600 + t[2] * 60 + t[3]

\* the weekdays of the calendar of January 2021 (0 is Monday)
January2021 ==
    [d \in {<<2021, 1, n>> : n \in 1..31} |-> (d[3] + 3) % 7]

(***************************************************************************)
(* C1.  get_trains, next_trips and next_trains apply the same decision on  *)
(* the service calendar: with inWindow = (start <= date(after) <= end and  *)
(* weekday(after) in days), a train is in a returned list only if          *)
(* (removed = false and inWindow) or (removed = true and not inWindow).    *)
(***************************************************************************)
inWindow(T, after) ==
    /\ DateNumber(T.service_window.start) <= DateNumber(after.date)
    /\ DateNumber(after.date) <= DateNumber(T.service_window.end)
    /\ January2021[after.date] \in T.service_window.days

RunsOn(T, after) ==
    \/ ~T.service_window.removed /\ inWindow(T, after)
    \/ T.service_window.removed /\ ~inWindow(T, after)

C1_ServiceCalendar ==
    \A op \in {"get_trains", "next_trips", "next_trains"} :
        Returns(op) => \A T \in TrainsReturned : RunsOn(T, AfterOfCall)

\* next_trains was asked for the one date of a removed service, at a station
\* and a time of day where a train of that service departs, and left it out
C1_Witness ==
    /\ Returns("next_trains")
    /\ result.args[3] = "None"
    /\ \E T \in TrainsHeld :
          /\ T.service_window.removed
          /\ T.service_window.start = AfterOfCall.date
          /\ T.service_window.end = AfterOfCall.date
          /\ \E n \in DOMAIN T.stops :
                /\ StationArg(Self, result.args[1]).ret.name = n
                /\ SecondOfDay(T.stops[n].departure) >= SecondOfDay(AfterOfCall.time)
          /\ T \notin TrainsReturned

(***************************************************************************)
(* C2.  The list next_trips or next_trains returns holds no entry whose    *)
(* departure time of day is earlier than the time of day of after, and is  *)
(* in ascending order of departure time of day.                            *)
(***************************************************************************)
C2_NotEarlierAndSorted ==
    \A op \in {"next_trips", "next_trains"} :
        Returns(op) =>
            /\ \A i \in 1..Len(result.ret) :
                  SecondOfDay(result.ret[i].departure) >= SecondOfDay(AfterOfCall.time)
            /\ \A i \in 1..Len(result.ret), j \in 1..Len(result.ret) :
                  i < j => SecondOfDay(result.ret[i].departure)
                               <= SecondOfDay(result.ret[j].departure)

\* the place of a train in self.trains
PlaceHeld(T) == CHOOSE i \in 1..Len(trains) : trains[i].val = T

\* the names of the stations a and b of a call of next_trips
NameOfA == StationArg(Self, result.args[1]).ret.name

NameOfB == StationArg(Self, result.args[2]).ret.name

\* next_trips returned two trains in the other order than self.trains holds
\* them, one of them departing at the very time of after, and left out a train
\* that runs that day from a to b but departs a earlier
C2_Witness ==
    /\ Returns("next_trips")
    /\ \E i \in 1..Len(result.ret), j \in 1..Len(result.ret) :
          /\ i < j
          /\ PlaceHeld(result.ret[i].train) > PlaceHeld(result.ret[j].train)
          /\ result.ret[i].departure = AfterOfCall.time
    /\ \E T \in TrainsHeld :
          /\ RunsOn(T, AfterOfCall)
          /\ NameOfA \in DOMAIN T.stops
          /\ NameOfB \in DOMAIN T.stops
          /\ T.stops[NameOfA].stop_number <= T.stops[NameOfB].stop_number
          /\ SecondOfDay(T.stops[NameOfA].departure) < SecondOfDay(AfterOfCall.time)
          /\ T \notin TrainsReturned

(***************************************************************************)
(* C3.  Every Trip next_trips(a, b, after) returns is of a train that      *)
(* stops at a and at b with stop_number(a) <= stop_number(b): a train      *)
(* whose stop number at a is greater than at b is never returned, also     *)
(* when it runs that day, stops at both and departs a at or after after.   *)
(***************************************************************************)
C3_WrongDirection ==
    Returns("next_trips") =>
        \A T \in TrainsReturned :
            /\ NameOfA \in DOMAIN T.stops
            /\ NameOfB \in DOMAIN T.stops
            /\ T.stops[NameOfA].stop_number <= T.stops[NameOfB].stop_number

\* next_trips returned a train and left out one that runs that day, stops at
\* both stations, departs a in time and reaches a after b
C3_Witness ==
    /\ Returns("next_trips")
    /\ result.ret # <<>>
    /\ \E T \in TrainsHeld :
          /\ RunsOn(T, AfterOfCall)
          /\ NameOfA \in DOMAIN T.stops
          /\ NameOfB \in DOMAIN T.stops
          /\ SecondOfDay(T.stops[NameOfA].departure) >= SecondOfDay(AfterOfCall.time)
          /\ T.stops[NameOfA].stop_number > T.stops[NameOfB].stop_number
          /\ T \notin TrainsReturned

(***************************************************************************)
(* C7.  A negative duration is a fault and is never returned: no Trip that *)
(* next_trips returns has a negative duration (the call raises instead).   *)
(***************************************************************************)
C7_NoNegativeDuration ==
    Returns("next_trips") =>
        \A i \in 1..Len(result.ret) : result.ret[i].duration >= 0

(***************************************************************************)
(* C8.  fare_between(a, b) returns the fare the feed records for the       *)
(* ordered pair (zone(a), zone(b)), the same on every call; when the feed  *)
(* has no rule for that ordered pair it raises a lookup error, also when   *)
(* the pair (zone(b), zone(a)) has a fare; the call leaves the instance as *)
(* it was.                                                                 *)
(***************************************************************************)
\* the rules of the feed for the ordered pair, and the price of a fare id
RulesFor(za, zb) ==
    {i \in 1..Len(feed.fare_rules) :
        feed.fare_rules[i].origin_id = za /\ feed.fare_rules[i].destination_id = zb}

PriceOf(id) ==
    LET i == CHOOSE k \in 1..Len(feed.fare_attributes) :
                 /\ feed.fare_attributes[k].fare_id = id
                 /\ \A m \in (k + 1)..Len(feed.fare_attributes) :
                       feed.fare_attributes[m].fare_id # id
        price == StrSplit(feed.fare_attributes[i].price, ".")
    IN  <<ParseInt(price[1]), ParseInt(price[2])>>

\* the zone of an argument of the call: of the Station it is or names
ZoneOfArg(k) == StationArg(Self, result.args[k]).ret.zone

BothResolve ==
    /\ StationArg(Self, result.args[1]).err = "none"
    /\ StationArg(Self, result.args[2]).err = "none"

FareAsRecorded ==
    LET rules == RulesFor(ZoneOfArg(1), ZoneOfArg(2))
    IN  IF rules = {}
        THEN result.err = "KeyError"
        ELSE /\ result.err = "none"
             /\ result.ret = PriceOf(feed.fare_rules[CHOOSE i \in rules :
                                                        \A j \in rules : j <= i].fare_id)

C8_FareOfOrderedPair ==
    /\ [](result.op = "fare_between" /\ BothResolve => FareAsRecorded)
    /\ [][(result.op = "fare_between")' => instance' = instance]_vars

\* fare_between raised KeyError for a pair of zones whose reverse has a fare
C8_Witness ==
    /\ result.op = "fare_between"
    /\ BothResolve
    /\ result.err = "KeyError"
    /\ RulesFor(ZoneOfArg(2), ZoneOfArg(1)) # {}

(***************************************************************************)
(* C6.  On an instance that holds the stations Palo Alto and San           *)
(* Francisco, spelling variants of a station resolve to it.                *)
(***************************************************************************)
StationsHeld == {stations[i].val : i \in 1..Len(stations)}

HoldsPaloAltoAndSanFrancisco ==
    /\ pc = "done"
    /\ \E st \in StationsHeld : st.name = "Palo Alto"
    /\ \E st \in StationsHeld : st.name = "San Francisco"

StationNamed(n) == CHOOSE st \in StationsHeld : st.name = n

\* get_station was called with a name of the set and returned the station n
ResolvesTo(names, n) ==
    result.args[1] \in names =>
        /\ \A x \in names, y \in names : _sanitize_name(x) = _sanitize_name(y)
        /\ result.err = "none"
        /\ result.ret = StationNamed(n)

\* C6 as the specification states it: _sanitize_name("Palo Alto Caltrain
\* Station") and _sanitize_name("PALO-ALTO") are the same key and get_station
\* of either returns the same Station, and get_station("SF") and
\* get_station("San Francisco") return the same Station
C6_AsStated ==
    result.op = "get_station" /\ HoldsPaloAltoAndSanFrancisco =>
        /\ ResolvesTo({"Palo Alto Caltrain Station", "PALO-ALTO"}, "Palo Alto")
        /\ result.args[1] \in {"SF", "San Francisco"} =>
              result.err = "none" /\ result.ret = StationNamed("San Francisco")

\* C6, amended: _sanitize_name("Palo Alto Station") and
\* _sanitize_name("PALO-ALTO") are the same key and get_station of either
\* returns the same Station, and get_station("SF") and
\* get_station("San Francisco") return the same Station
C6_SpellingVariants ==
    result.op = "get_station" /\ HoldsPaloAltoAndSanFrancisco =>
        /\ ResolvesTo({"Palo Alto Station", "PALO-ALTO"}, "Palo Alto")
        /\ result.args[1] \in {"SF", "San Francisco"} =>
              result.err = "none" /\ result.ret = StationNamed("San Francisco")

\* get_station("SF") returned the station San Francisco
C6_Witness ==
    /\ result.op = "get_station"
    /\ HoldsPaloAltoAndSanFrancisco
    /\ result.args[1] = "SF"
    /\ result.err = "none"
    /\ result.ret.name = "San Francisco"

(***************************************************************************)
(* C10.  A row of calendar_dates.txt whose service id is already in the    *)
(* service windows (from calendar.txt or from an earlier row) leaves that  *)
(* window, and every other, as it was.  A row whose service id is not yet  *)
(* there adds one window: it starts and ends on the date of the row, its   *)
(* days are the weekday of that date, and removed is true exactly when     *)
(* exception_type is "2".                                                  *)
(***************************************************************************)
\* the dates the rows of calendar_dates.txt are written with
DateWritten ==
    [s \in {"20210116", "20210118", "20210119"} |->
        CASE s = "20210116" -> <<2021, 1, 16>>
          [] s = "20210118" -> <<2021, 1, 18>>
          [] s = "20210119" -> <<2021, 1, 19>>]

\* load_from_gtfs goes from the row it is at to the next
RowRead == <<pc, row>>' # <<pc, row>>

C10_ExceptionRows ==
    [][pc = "calendar_dates" /\ RowRead =>
          LET r == feed.calendar_dates[row]
              id == r.service_id
              date == DateWritten[r.date]
          IN  IF id \in DOMAIN _service_windows
              THEN _service_windows' = _service_windows
              ELSE /\ DOMAIN _service_windows' = DOMAIN _service_windows \cup {id}
                   /\ \A k \in DOMAIN _service_windows :
                         _service_windows'[k] = _service_windows[k]
                   /\ _service_windows'[id].start = date
                   /\ _service_windows'[id].end = date
                   /\ _service_windows'[id].days = {January2021[date]}
                   /\ _service_windows'[id].removed = (r.exception_type = "2")]_vars

\* three rows are read: the first names a service of calendar.txt, the third
\* the service the second row made a window for, with another exception type
C10_Witness ==
    /\ pc = "calendar_dates"
    /\ row = 4
    /\ \E i \in 1..Len(feed.calendar) :
          feed.calendar[i].service_id = feed.calendar_dates[1].service_id
    /\ feed.calendar_dates[3].service_id = feed.calendar_dates[2].service_id
    /\ feed.calendar_dates[3].exception_type # feed.calendar_dates[2].exception_type
    /\ _service_windows[feed.calendar_dates[2].service_id].removed

(***************************************************************************)
(* C4.  While load_from_gtfs runs again, with a well-formed feed, on an    *)
(* instance that holds a complete model, a query called between two of its *)
(* steps returns what it returns on the complete old model or what it      *)
(* returns on the complete new model.                                      *)
(***************************************************************************)
\* the call op(args) on the instance self
CallOn(self, op, args) ==
    CASE op = "get_station" -> get_station(self, args[1])
      [] op = "fare_between" -> fare_between(self, args[1], args[2])
      [] op = "next_trips" -> next_trips(self, args[1], args[2], args[3])
      [] op = "next_trains" -> next_trains(self, args[1], args[2], args[3])

\* the result is what the call returns on the instance self
ObservedOn(self) ==
    LET r == CallOn(self, result.op, result.args)
    IN  result.err = r.err /\ result.ret = r.ret

Reloading ==
    /\ pc \notin {"done", "failed"}
    /\ feed \in WellFormedFeeds
    /\ \E f \in WellFormedFeeds : old = load_from_gtfs(EmptySelf, f).self

C4_ReloadIsAtomic ==
    Reloading /\ result.op \in {"get_station", "fare_between", "next_trips", "next_trains"} =>
        ObservedOn(old) \/ ObservedOn(load_from_gtfs(old, feed).self)

(***************************************************************************)
(* C5.  When load_from_gtfs raises, the exception reaches the caller and   *)
(* the instance holds no partly built model: its fields are those of       *)
(* before the call, or those of __init__.                                  *)
(***************************************************************************)
C5_FailedLoadPublishesNothing ==
    pc = "failed" =>
        /\ result.op = "load_from_gtfs" => result.err # "none"
        /\ Self = old \/ Self = EmptySelf

(***************************************************************************)
(* C9.  For a clock string HH:MM:SS with HH in 0..MaxHour, MM in 0..59 and *)
(* SS in 0..59, _resolve_time returns (HH div 24, the time of day          *)
(* (HH mod 24):MM:SS).  The arrival and the departure of a stop-time row   *)
(* are each resolved by this rule, on their own.                           *)
(***************************************************************************)
Resolved(c) == <<c[1] \div 24, <<c[1] % 24, c[2], c[3]>> >>

C9_ResolveTime ==
    /\ result.op = "_resolve_time" => result.ret = Resolved(input[1])
    /\ result.op = "Stop" =>
          /\ <<result.ret.arrival_day, result.ret.arrival>> = Resolved(input[1])
          /\ <<result.ret.departure_day, result.ret.departure>> = Resolved(input[2])

\* "25:30:00" was resolved to (1, 01:30:00)
C9_Witness ==
    /\ result.op = "_resolve_time"
    /\ result.args = <<"25:30:00">>
    /\ result.ret = <<1, <<1, 30, 0>> >>

\* a Stop was made whose arrival and departure are on different days
C9_WitnessStop ==
    /\ result.op = "Stop"
    /\ result.args[1].arrival_time = "23:59:59"
    /\ result.args[1].departure_time = "24:00:00"
    /\ result.ret.arrival_day = 0
    /\ result.ret.departure_day = 1

(***************************************************************************)
(* C11.  After a successful load, get_station on the display name of a     *)
(* station S of the station map returns S itself: neither the removal of   *)
(* "station" by _sanitize_name, nor an entry of _ALIAS_MAP for the         *)
(* sanitized name, nor two display keys with one compact key keeps a       *)
(* station from being found under its own name.                            *)
(***************************************************************************)
C11_RoundTrip ==
    \A i \in 1..Len(stations) :
        (pc = "done" /\ result.op = "get_station"
                     /\ result.args[1] = stations[i].val.name)
            => result.err = "none" /\ result.ret = stations[i].val

=============================================================================
